---- MODULE Spec2Model ----
(***************************************************************************)
(* Model of gowebdav's request layer (requests.go): Client.req with its    *)
(* authentication upgrade and body replay, and the verbs mkcol, propfind,  *)
(* copymove, put and createParentCollection built on it.                   *)
(*                                                                         *)
(* Spec     : one goroutine runs verb operations one after the other.      *)
(* SpecConc : several goroutines call req concurrently on one Client.      *)
(***************************************************************************)
EXTENDS Integers, Sequences, FiniteSets, TLC

\* ------------------------------------------------------------------ bounds
MaxLen == 2        \* longest request body, in bytes
MaxCalls == 2      \* operations one goroutine starts
MaxCopyMove == 3   \* COPY/MOVE attempts followed inside one copymove call

\* The goroutines sharing the Client: the spec's race is between two calls
Procs == {1, 2}
Bytes == {1, 2}

\* ------------------------------------------------------- strings and paths
\* Strings that the code inspects are sequences of one-character strings.
Lower(ch) ==
    CASE ch = "A" -> "a" [] ch = "B" -> "b" [] ch = "C" -> "c"
      [] ch = "D" -> "d" [] ch = "E" -> "e" [] ch = "G" -> "g"
      [] ch = "I" -> "i" [] ch = "N" -> "n" [] ch = "S" -> "s"
      [] ch = "T" -> "t" [] OTHER -> ch

\* strings.ToLower
ToLower(s) == [i \in 1..Len(s) |-> Lower(s[i])]

\* strings.Index: 0-based index of the first occurrence of sub in s, or -1
Index(s, sub) ==
    LET hits == {i \in 1..(Len(s) - Len(sub) + 1) :
                    SubSeq(s, i, i + Len(sub) - 1) = sub}
    IN  IF hits = {} THEN -1
        ELSE (CHOOSE i \in hits : \A j \in hits : i <= j) - 1

StrDigest == <<"d", "i", "g", "e", "s", "t">>
StrBasic == <<"b", "a", "s", "i", "c">>

\* Values of the WWW-Authenticate response header (<<>> when it is missing)
HdrMissing == <<>>
HdrDigest1 == <<"D", "i", "g", "e", "s", "t", " ", "n", "=", "1">>
HdrDigest2 == <<"D", "I", "G", "E", "S", "T", " ", "n", "=", "2">>
HdrBasic == <<"B", "a", "s", "i", "c">>
HdrBoth == <<"b", "A", "S", "I", "C", ",", "d", "i", "g", "e", "s", "t", " ", "n", "=", "3">>
HdrNegotiate == <<"N", "e", "g", "o", "t", "i", "a", "t", "e">>
Challenges == {HdrMissing, HdrDigest1, HdrDigest2, HdrBasic, HdrBoth, HdrNegotiate}

\* path.Dir for the paths used here: everything before the last slash,
\* "." when there is no slash and "/" when the only slash is the first one
LastSlash(s) ==
    LET idx == {i \in 1..Len(s) : s[i] = "/"}
    IN  IF idx = {} THEN 0 ELSE CHOOSE i \in idx : \A j \in idx : j <= i

Dir(s) ==
    LET k == LastSlash(s)
    IN  IF k = 0 THEN <<".">>
        ELSE IF k = 1 THEN <<"/">>
        ELSE SubSeq(s, 1, k - 1)

Root == <<"/", "d">>
OldPaths == {<<"x">>}
NewPaths == {<<"y">>, <<"/", "y">>, <<"a", "/", "y">>}

\* ----------------------------------------------------------- authenticators
User == "user"
Pass == "pass"
NoParts == <<>>

NoAuth == [type |-> "NoAuth", user |-> User, pass |-> Pass, parts |-> NoParts]
BasicAuth(u, pw) == [type |-> "BasicAuth", user |-> u, pass |-> pw, parts |-> NoParts]
DigestAuth(u, pw, parts) == [type |-> "DigestAuth", user |-> u, pass |-> pw, parts |-> parts]

\* digestParts: the challenge parameters of the header, here what follows
\* the scheme name
digestParts(hdr) ==
    LET k == Index(hdr, <<" ">>)
    IN  IF k = -1 THEN <<>> ELSE SubSeq(hdr, k + 2, Len(hdr))

\* ---------------------------------------------------------------- results
NoErr == [kind |-> "nil"]
TransportErr == [kind |-> "transport"]
SeekErr == [kind |-> "seek"]
MkdirErr == [kind |-> "mkdirall"]
ParseErr == [kind |-> "parse"]
\* newPathError(op, path, statusCode)
newPathError(o, path, code) == [kind |-> "path", op |-> o, path |-> path, status |-> code]

NoResp == [status |-> 0, hdr |-> <<>>]
\* Statuses the server answers a verb with: those the verb tells apart, and
\* one it does not
StatusesFor(verb) ==
    IF verb = "options" THEN {200, 401} ELSE {201, 204, 207, 401, 404, 405, 409}
\* What the server may answer: a challenge comes only with a 401
ResponsesFor(verb) ==
    [status : StatusesFor(verb) \ {401}, hdr : {HdrMissing}]
        \cup [status : {401}, hdr : Challenges]

NoSnap == [type |-> "none", user |-> "", pass |-> "", parts |-> NoParts]
NoBody == [kind |-> "nil", data |-> <<>>, pos |-> 0]
NoOp == [name |-> "none", method |-> "", path |-> <<>>, newpath |-> <<>>, self |-> FALSE]
NoRet == [status |-> 0, err |-> NoErr, parsed |-> FALSE]

SeqsUpTo(n) == UNION {[1..k -> Bytes] : k \in 0..n}


\* ------------------------------------------------------------------ state
VARIABLES
    auth,       \* c.auth, the Client's shared authenticator
    authMutex,  \* c.authMutex: 0 when free, else the goroutine holding it
    pc,         \* where each goroutine is
    op,         \* the verb operation each goroutine runs, with its arguments
    calls,      \* operations each goroutine has started
    src,        \* the body object the caller passed (content, read position)
    body,       \* req's body parameter: "nil", "src" or "buf" (a bytes.Buffer)
    retryBuf,   \* req's retryBuf: "nil", "src" or "buf"
    inBuf,      \* unread content of the buffer passed as body to a retry
    buff,       \* content of the buffer the TeeReader of this frame fills
    snap,       \* the local auth of the current attempt
    log,        \* the requests sent since the verb called req, with answers
    rs,         \* response req returns
    err,        \* error req returns
    open,       \* response bodies obtained and not yet closed
    deferred,   \* deferred data.Close() calls of the copymove frames
    cm,         \* doCopyMove invocations inside the current copymove call
    mkdirs,     \* MkdirAll invocations inside the current copymove call
    ret,        \* what the operation returned
    steps,      \* what has been done to the request of the current attempt
    interceptor \* whether c.interceptor is set

frameVars == <<body, retryBuf, inBuf, buff, snap, steps>>
opVars == <<op, calls, cm, mkdirs, ret, deferred, interceptor>>
vars == <<auth, authMutex, pc, op, calls, src, body, retryBuf, inBuf, buff, snap,
          log, rs, err, open, deferred, cm, mkdirs, ret, steps, interceptor>>

\* Authenticators a Client can be constructed with
InitialAuths == {NoAuth, BasicAuth(User, Pass)}

Init ==
    /\ auth \in InitialAuths
    /\ authMutex = 0
    /\ pc = [p \in Procs |-> "idle"]
    /\ op = [p \in Procs |-> NoOp]
    /\ calls = [p \in Procs |-> 0]
    /\ src = [p \in Procs |-> NoBody]
    /\ body = [p \in Procs |-> "nil"]
    /\ retryBuf = [p \in Procs |-> "nil"]
    /\ inBuf = [p \in Procs |-> <<>>]
    /\ buff = [p \in Procs |-> <<>>]
    /\ snap = [p \in Procs |-> NoSnap]
    /\ log = [p \in Procs |-> <<>>]
    /\ rs = [p \in Procs |-> NoResp]
    /\ err = [p \in Procs |-> NoErr]
    /\ open = [p \in Procs |-> 0]
    /\ deferred = [p \in Procs |-> 0]
    /\ cm = [p \in Procs |-> 0]
    /\ mkdirs = [p \in Procs |-> 0]
    /\ ret = [p \in Procs |-> NoRet]
    /\ steps = [p \in Procs |-> <<>>]
    /\ interceptor \in BOOLEAN

\* ------------------------------------------------------------------- req
\* A verb calls c.req(ctx, method, path, b, intercept)
EnterReq(p, b) ==
    /\ body' = [body EXCEPT ![p] = b]
    /\ retryBuf' = [retryBuf EXCEPT ![p] = "nil"]
    /\ inBuf' = [inBuf EXCEPT ![p] = <<>>]
    /\ buff' = [buff EXCEPT ![p] = <<>>]
    /\ snap' = [snap EXCEPT ![p] = NoSnap]
    /\ steps' = [steps EXCEPT ![p] = <<>>]
    /\ log' = [log EXCEPT ![p] = <<>>]
    /\ rs' = [rs EXCEPT ![p] = NoResp]
    /\ err' = [err EXCEPT ![p] = NoErr]
    /\ pc' = [pc EXCEPT ![p] = "entry"]

\* body.(io.Seeker): the caller's seekable object is one, a bytes.Buffer and
\* a plain stream are not
IsSeeker(p) == body[p] = "src" /\ src[p].kind = "seek"

\* Mutant: the test for a nil body is missing, a buffer is made for it too
ReplaySource_NoNilTest(b, seeker) == IF seeker THEN "src" ELSE "buf"

\* Lines 17-37: what retryBuf is for the body b: nothing for a nil body, the
\* body itself when it is a Seeker, else a new buffer behind a TeeReader
ReplaySource(b, seeker) ==
    IF b = "nil" THEN "nil"
    ELSE IF seeker THEN "src"
    ELSE "buf"

\* Mutant: the body is used from where it stands
SeekStart_Skipped(pos) == pos

\* Line 25: sk.Seek(0, io.SeekStart), the position after a successful seek
SeekStart(pos) == 0

\* Lines 13-47: set up the replay source, build the request, add the headers
ReqEntry(p) ==
    /\ pc[p] = "entry"
    /\ IF ReplaySource(body[p], IsSeeker(p)) = "nil"
       THEN /\ pc' = [pc EXCEPT ![p] = "lock"]
            /\ retryBuf' = [retryBuf EXCEPT ![p] = "nil"]
            /\ UNCHANGED <<src, inBuf, buff, rs, err>>
       ELSE IF ReplaySource(body[p], IsSeeker(p)) = "src"
       THEN \E seekOk \in BOOLEAN :
                IF seekOk
                THEN /\ src' = [src EXCEPT ![p].pos = SeekStart(@)]
                     /\ retryBuf' = [retryBuf EXCEPT ![p] = "src"]
                     /\ pc' = [pc EXCEPT ![p] = "lock"]
                     /\ UNCHANGED <<inBuf, buff, rs, err>>
                ELSE /\ rs' = [rs EXCEPT ![p] = NoResp]
                     /\ err' = [err EXCEPT ![p] = SeekErr]
                     /\ pc' = [pc EXCEPT ![p] = "ret"]
                     /\ UNCHANGED <<src, retryBuf, inBuf, buff>>
       ELSE /\ inBuf' = [inBuf EXCEPT ![p] = IF body[p] = "buf" THEN buff[p] ELSE @]
            /\ buff' = [buff EXCEPT ![p] = <<>>]
            /\ retryBuf' = [retryBuf EXCEPT ![p] = "buf"]
            /\ pc' = [pc EXCEPT ![p] = "lock"]
            /\ UNCHANGED <<src, rs, err>>
    /\ steps' = [steps EXCEPT ![p] = IF pc'[p] = "lock" THEN <<"headers">> ELSE <<>>]
    /\ UNCHANGED <<auth, authMutex, body, snap, log, open>>
    /\ UNCHANGED opVars

\* Mutant: the unlock is deferred to the return of req, so the goroutine
\* keeps the mutex
Unlock_Deferred(holder) == holder

\* c.authMutex.Unlock() (lines 53, 76, 80): the mutex is free again
Unlock(holder) == 0

\* Line 51: c.authMutex.Lock()
AuthLock(p) ==
    /\ pc[p] = "lock"
    /\ authMutex = 0
    /\ authMutex' = p
    /\ pc' = [pc EXCEPT ![p] = "snap"]
    /\ UNCHANGED <<auth, src, log, rs, err, open>>
    /\ UNCHANGED frameVars
    /\ UNCHANGED opVars

\* Lines 52-53: auth := c.auth; c.authMutex.Unlock()
AuthSnapshot(p) ==
    /\ pc[p] = "snap"
    /\ authMutex = p
    /\ snap' = [snap EXCEPT ![p] = auth]
    /\ authMutex' = Unlock(p)
    /\ pc' = [pc EXCEPT ![p] = "send"]
    /\ steps' = [steps EXCEPT ![p] = Append(@, "snapshot")]
    /\ UNCHANGED <<auth, src, body, retryBuf, inBuf, buff, log, rs, err, open>>
    /\ UNCHANGED opVars

\* What the request's body yields when it is read to its end
Offered(p) ==
    IF body[p] = "nil" THEN <<>>
    ELSE IF body[p] = "src" THEN SubSeq(src[p].data, src[p].pos + 1, Len(src[p].data))
    ELSE inBuf[p]

\* Mutant: the TeeReader forwards the bytes without writing them to the buffer
TeeWrite_Drops(b, bytesRead) == b

\* io.TeeReader: what is read from the stream is written to the buffer
TeeWrite(b, bytesRead) == b \o bytesRead

\* Whether the verb passes an intercept function to req (lines 111, 117 and
\* 152) or nil (lines 96 and 198)
HasIntercept(o) == o.name \in {"options", "propfind", "copymove"}

\* Lines 112 and 118-122: the Depth header the verb's intercept adds, "" when
\* it adds none
DepthHeader(o) ==
    IF o.name = "options" THEN "0"
    ELSE IF o.name = "propfind" THEN (IF o.self THEN "0" ELSE "1")
    ELSE ""

\* Mutant: the hooks run before the credentials are attached
DispatchSteps_HooksFirst(intercept, global) ==
    (IF intercept THEN <<"mutate">> ELSE <<>>)
        \o (IF global THEN <<"observe">> ELSE <<>>)
        \o <<"authorize", "send">>

\* Lines 55-65: Authorize on the snapshot, the caller's intercept when there
\* is one, c.interceptor when it is set, then c.c.Do
DispatchSteps(intercept, global) ==
    <<"authorize">>
        \o (IF intercept THEN <<"mutate">> ELSE <<>>)
        \o (IF global THEN <<"observe">> ELSE <<>>)
        \o <<"send">>

\* Mutant: a transport error makes req build and send the request again
AfterDo_Retries(failed) == IF failed THEN "entry" ELSE "resp"

\* Lines 65-68: an error of c.c.Do makes req return, else the response is
\* interpreted
AfterDo(failed) == IF failed THEN "ret" ELSE "resp"

\* Lines 55-68: Authorize, the hooks, and c.c.Do: the transport reads k bytes
\* of the body, then either fails or hands back the server's response
Dispatch(p) ==
    /\ pc[p] = "send"
    /\ \E k \in 0..Len(Offered(p)), failed \in BOOLEAN, answer \in ResponsesFor(op[p].name) :
        LET out == IF failed THEN NoResp ELSE answer
            chunk == SubSeq(Offered(p), 1, k)
        IN  /\ failed => answer = CHOOSE r \in ResponsesFor(op[p].name) : TRUE
            /\ src' = [src EXCEPT ![p].pos = IF body[p] = "src" THEN @ + k ELSE @]
            /\ inBuf' = [inBuf EXCEPT ![p] =
                            IF body[p] = "buf" THEN SubSeq(@, k + 1, Len(@)) ELSE @]
            /\ buff' = [buff EXCEPT ![p] =
                            IF retryBuf[p] = "buf" THEN TeeWrite(@, chunk) ELSE @]
            /\ log' = [log EXCEPT ![p] = Append(@,
                          [auth |-> snap[p], hasBody |-> body[p] # "nil",
                           body |-> Offered(p), read |-> k,
                           depth |-> DepthHeader(op[p]),
                           steps |-> steps[p]
                                       \o DispatchSteps(HasIntercept(op[p]), interceptor),
                           failed |-> failed, status |-> out.status, hdr |-> out.hdr])]
            /\ IF failed
               THEN /\ rs' = [rs EXCEPT ![p] = NoResp]
                    /\ err' = [err EXCEPT ![p] = TransportErr]
                    /\ pc' = [pc EXCEPT ![p] = AfterDo(failed)]
                    /\ open' = open
               ELSE /\ rs' = [rs EXCEPT ![p] = out]
                    /\ err' = [err EXCEPT ![p] = NoErr]
                    /\ pc' = [pc EXCEPT ![p] = AfterDo(failed)]
                    /\ open' = [open EXCEPT ![p] = @ + 1]
    /\ steps' = [steps EXCEPT ![p] =
                     @ \o DispatchSteps(HasIntercept(op[p]), interceptor)]
    /\ UNCHANGED <<auth, authMutex, body, retryBuf, snap>>
    /\ UNCHANGED opVars

\* Mutant: every 401 is taken for an unauthenticated attempt
IsNoAuth_Always(a) == TRUE

\* Mutant: an authenticator without digest parameters is taken for Anonymous
IsNoAuth_ByParts(a) == a.parts = NoParts

\* auth.Type() == "NoAuth"
IsNoAuth(a) == a.type = "NoAuth"

\* Mutant: a challenge that does not name Digest is taken for Basic
Scheme_DefaultBasic(hdr) ==
    IF Index(ToLower(hdr), StrDigest) > -1 THEN "digest" ELSE "basic"

\* Mutant: the test for "basic" comes first
Scheme_BasicFirst(hdr) ==
    IF Index(ToLower(hdr), StrBasic) > -1 THEN "basic"
    ELSE IF Index(ToLower(hdr), StrDigest) > -1 THEN "digest"
    ELSE "none"

\* Lines 71-81: which scheme the challenge asks for
Scheme(hdr) ==
    LET wwwAuthenticateHeader == ToLower(hdr)
    IN  IF Index(wwwAuthenticateHeader, StrDigest) > -1 THEN "digest"
        ELSE IF Index(wwwAuthenticateHeader, StrBasic) > -1 THEN "basic"
        ELSE "none"

\* Mutant: the new authenticator is built without the snapshot's credentials
Upgraded_NoCredentials(a, hdr) ==
    IF Scheme(hdr) = "digest"
    THEN DigestAuth("", "", digestParts(hdr))
    ELSE BasicAuth("", "")

\* Mutant: the snapshot itself is stored back
Upgraded_Unchanged(a, hdr) == a

\* Lines 75 and 79: the authenticator that replaces c.auth
Upgraded(a, hdr) ==
    IF Scheme(hdr) = "digest"
    THEN DigestAuth(a.user, a.pass, digestParts(hdr))
    ELSE BasicAuth(a.user, a.pass)

\* Lines 70-92: interpret the response
HandleResponse(p) ==
    /\ pc[p] = "resp"
    /\ IF rs[p].status = 401 /\ IsNoAuth(snap[p])
       THEN IF Scheme(rs[p].hdr) # "none"
            THEN /\ pc' = [pc EXCEPT ![p] = "wlock"]
                 /\ err' = err
            ELSE /\ err' = [err EXCEPT ![p] = newPathError("Authorize", Root, rs[p].status)]
                 /\ pc' = [pc EXCEPT ![p] = "ret"]
       ELSE IF rs[p].status = 401
       THEN /\ err' = [err EXCEPT ![p] = newPathError("Authorize", Root, rs[p].status)]
            /\ pc' = [pc EXCEPT ![p] = "ret"]
       ELSE /\ err' = err
            /\ pc' = [pc EXCEPT ![p] = "ret"]
    /\ UNCHANGED <<auth, authMutex, src, log, rs, open>>
    /\ UNCHANGED frameVars
    /\ UNCHANGED opVars

\* Lines 74 and 78: c.authMutex.Lock() before the replacement
UpgradeLock(p) ==
    /\ pc[p] = "wlock"
    /\ authMutex = 0
    /\ authMutex' = p
    /\ pc' = [pc EXCEPT ![p] = "write"]
    /\ UNCHANGED <<auth, src, log, rs, err, open>>
    /\ UNCHANGED frameVars
    /\ UNCHANGED opVars

\* Lines 75-76, 79-80 and 87: replace c.auth, unlock, and call req again
\* with retryBuf as the body
UpgradeWrite(p) ==
    /\ pc[p] = "write"
    /\ authMutex = p
    /\ auth' = Upgraded(snap[p], rs[p].hdr)
    /\ authMutex' = Unlock(p)
    /\ body' = [body EXCEPT ![p] = retryBuf[p]]
    /\ pc' = [pc EXCEPT ![p] = "entry"]
    /\ UNCHANGED <<src, retryBuf, inBuf, buff, snap, steps, log, rs, err, open>>
    /\ UNCHANGED opVars


\* ----------------------------------------------------------------- verbs
CanCall(p) == pc[p] \in {"idle", "done"} /\ calls[p] < MaxCalls

StartOp(p, o, b) ==
    /\ op' = [op EXCEPT ![p] = o]
    /\ calls' = [calls EXCEPT ![p] = @ + 1]
    /\ src' = [src EXCEPT ![p] = b]
    /\ cm' = [cm EXCEPT ![p] = IF o.name = "copymove" THEN 1 ELSE 0]
    /\ mkdirs' = [mkdirs EXCEPT ![p] = 0]
    /\ ret' = [ret EXCEPT ![p] = NoRet]
    /\ EnterReq(p, IF b.kind = "nil" THEN "nil" ELSE "src")
    /\ UNCHANGED <<auth, authMutex, interceptor, open, deferred>>

\* Line 96: mkcol calls req with a nil body
CallMkcol(p) ==
    /\ CanCall(p)
    /\ StartOp(p, [NoOp EXCEPT !.name = "mkcol", !.method = "MKCOL", !.path = <<"x">>], NoBody)

\* Line 198: put calls req with the caller's stream: seekable or not, at any
\* position when seekable
CallPut(p) ==
    /\ CanCall(p)
    /\ \E kind \in {"nil", "seek", "stream"}, data \in SeqsUpTo(MaxLen) :
       \E pos \in 0..Len(data) :
        /\ kind = "nil" => data = <<>>
        /\ kind # "seek" => pos = 0
        /\ StartOp(p, [NoOp EXCEPT !.name = "put", !.method = "PUT", !.path = <<"x">>],
                   [kind |-> kind, data |-> data, pos |-> pos])

\* Line 117: propfind calls req with strings.NewReader(body)
CallPropfind(p) ==
    /\ CanCall(p)
    /\ \E self \in BOOLEAN, data \in {<<>>, <<1>>} :
        StartOp(p, [NoOp EXCEPT !.name = "propfind", !.method = "PROPFIND",
                                !.path = <<"x">>, !.self = self],
                [kind |-> "seek", data |-> data, pos |-> 0])

\* Lines 169 and 152: copymove calls doCopyMove, which calls req with a nil body
CallCopymove(p) ==
    /\ CanCall(p)
    /\ \E m \in {"COPY", "MOVE"}, old \in OldPaths, new \in NewPaths :
        StartOp(p, [NoOp EXCEPT !.name = "copymove", !.method = m,
                                !.path = old, !.newpath = new], NoBody)

\* Lines 110-114: options hands req's result to its caller
CallOptions(p) ==
    /\ CanCall(p)
    /\ StartOp(p, [NoOp EXCEPT !.name = "options", !.method = "OPTIONS", !.path = <<"x">>], NoBody)

\* When req has returned, its locals are gone
LeaveReq(p) ==
    /\ body' = [body EXCEPT ![p] = "nil"]
    /\ retryBuf' = [retryBuf EXCEPT ![p] = "nil"]
    /\ inBuf' = [inBuf EXCEPT ![p] = <<>>]
    /\ buff' = [buff EXCEPT ![p] = <<>>]
    /\ snap' = [snap EXCEPT ![p] = NoSnap]
    /\ steps' = [steps EXCEPT ![p] = <<>>]
    /\ log' = [log EXCEPT ![p] = <<>>]
    /\ rs' = [rs EXCEPT ![p] = NoResp]
    /\ err' = [err EXCEPT ![p] = NoErr]

OptionsReturn(p) ==
    /\ pc[p] = "ret"
    /\ op[p].name = "options"
    /\ ret' = [ret EXCEPT ![p] = [status |-> rs[p].status, err |-> err[p], parsed |-> FALSE]]
    /\ pc' = [pc EXCEPT ![p] = "done"]
    /\ LeaveReq(p)
    /\ UNCHANGED <<auth, authMutex, interceptor, op, calls, src, open, deferred, cm, mkdirs>>

\* Mutant: mkcol reports the response status as it is
MkcolStatus_NoRemap(s) == s

\* Lines 102-105: the status mkcol reports for the response status s
MkcolStatus(s) == IF s = 405 THEN 201 ELSE s

\* Lines 97-107
MkcolReturn(p) ==
    /\ pc[p] = "ret"
    /\ op[p].name = "mkcol"
    /\ IF err[p] # NoErr
       THEN /\ ret' = [ret EXCEPT ![p] = [status |-> 0, err |-> err[p], parsed |-> FALSE]]
            /\ open' = open
       ELSE /\ ret' = [ret EXCEPT ![p] =
                          [status |-> MkcolStatus(rs[p].status), err |-> NoErr, parsed |-> FALSE]]
            /\ open' = [open EXCEPT ![p] = @ - 1]
    /\ pc' = [pc EXCEPT ![p] = "done"]
    /\ UNCHANGED <<auth, authMutex, interceptor, op, calls, src, log, rs, err, deferred, cm, mkdirs>>
    /\ UNCHANGED frameVars

\* Lines 199-205
PutReturn(p) ==
    /\ pc[p] = "ret"
    /\ op[p].name = "put"
    /\ IF err[p] # NoErr
       THEN /\ ret' = [ret EXCEPT ![p] = [status |-> 0, err |-> err[p], parsed |-> FALSE]]
            /\ open' = open
       ELSE /\ ret' = [ret EXCEPT ![p] =
                          [status |-> rs[p].status, err |-> NoErr, parsed |-> FALSE]]
            /\ open' = [open EXCEPT ![p] = @ - 1]
    /\ pc' = [pc EXCEPT ![p] = "done"]
    /\ UNCHANGED <<auth, authMutex, interceptor, op, calls, src, log, rs, err, deferred, cm, mkdirs>>
    /\ UNCHANGED frameVars

\* Mutant: every success status is parsed
IsMultiStatus_AnySuccess(s) == s \in {201, 204, 207}

\* Line 134: rs.StatusCode != 207 is a failure
IsMultiStatus(s) == s = 207

\* Lines 129-138: parseXML is applied to a 207 response only; it may fail
PropfindReturn(p) ==
    /\ pc[p] = "ret"
    /\ op[p].name = "propfind"
    /\ IF err[p] # NoErr
       THEN /\ ret' = [ret EXCEPT ![p] = [status |-> 0, err |-> err[p], parsed |-> FALSE]]
            /\ open' = open
       ELSE /\ open' = [open EXCEPT ![p] = @ - 1]
            /\ IF ~IsMultiStatus(rs[p].status)
               THEN ret' = [ret EXCEPT ![p] =
                               [status |-> rs[p].status,
                                err |-> newPathError("PROPFIND", op[p].path, rs[p].status),
                                parsed |-> FALSE]]
               ELSE \E parseErr \in {NoErr, ParseErr} :
                        ret' = [ret EXCEPT ![p] =
                                   [status |-> rs[p].status, err |-> parseErr, parsed |-> TRUE]]
    /\ pc' = [pc EXCEPT ![p] = "done"]
    /\ UNCHANGED <<auth, authMutex, interceptor, op, calls, src, log, rs, err, deferred, cm, mkdirs>>
    /\ UNCHANGED frameVars

\* Mutant: a 207 is taken for success
CopymoveCase_MultiStatusOk(s) ==
    IF s \in {201, 204, 207} THEN "ok"
    ELSE IF s = 409 THEN "recover"
    ELSE "fail"

\* Lines 177-194: what copymove does with the status s of doCopyMove:
\* "ok" returns nil, "recover" creates the parent and tries again,
\* "fail" returns newPathError(method, oldpath, s)
CopymoveCase(s) ==
    IF s \in {201, 204} THEN "ok"
    ELSE IF s = 409 THEN "recover"
    ELSE "fail"

\* Lines 160-166 and 169-194: doCopyMove returns, copymove switches on the
\* status; a return runs the deferred data.Close() of every copymove frame
CopymoveReturn(p) ==
    /\ pc[p] = "ret"
    /\ op[p].name = "copymove"
    /\ IF err[p] # NoErr
       THEN /\ ret' = [ret EXCEPT ![p] = [status |-> 0, err |-> err[p], parsed |-> FALSE]]
            /\ open' = [open EXCEPT ![p] = @ - deferred[p]]
            /\ deferred' = [deferred EXCEPT ![p] = 0]
            /\ pc' = [pc EXCEPT ![p] = "done"]
       ELSE IF CopymoveCase(rs[p].status) = "recover"
       THEN /\ deferred' = [deferred EXCEPT ![p] = @ + 1]
            /\ pc' = [pc EXCEPT ![p] = "parent"]
            /\ UNCHANGED <<ret, open>>
       ELSE /\ ret' = [ret EXCEPT ![p] =
                          [status |-> rs[p].status,
                           err |-> IF CopymoveCase(rs[p].status) = "ok" THEN NoErr
                                   ELSE newPathError(op[p].method, op[p].path, rs[p].status),
                           parsed |-> FALSE]]
            /\ open' = [open EXCEPT ![p] = @ - (deferred[p] + 1)]
            /\ deferred' = [deferred EXCEPT ![p] = 0]
            /\ pc' = [pc EXCEPT ![p] = "done"]
    /\ UNCHANGED <<auth, authMutex, interceptor, op, calls, src, log, rs, err, cm, mkdirs>>
    /\ UNCHANGED frameVars

\* Mutant: only the root directory is recognised, not "."
IsRootParent_SlashOnly(parentPath) == parentPath = <<"/">>

\* Line 210: the parent needs no creation
IsRootParent(parentPath) == parentPath = <<".">> \/ parentPath = <<"/">>

\* What c.MkdirAll may leave in c.auth: its MKCOL requests go through req,
\* which replaces an Anonymous authenticator when challenged
MkdirAllAuths(a) ==
    {a} \cup (IF IsNoAuth(a)
              THEN {Upgraded(a, h) : h \in {g \in Challenges : Scheme(g) # "none"}}
              ELSE {})

\* Lines 186-191 and 208-214: createParentCollection, then on success
\* copymove calls itself
CreateParentCollection(p) ==
    /\ pc[p] = "parent"
    /\ cm[p] < MaxCopyMove
    /\ LET parentPath == Dir(op[p].newpath)
       IN  \E mkErr \in {NoErr, MkdirErr}, a \in MkdirAllAuths(auth) :
            /\ IsRootParent(parentPath) => mkErr = NoErr /\ a = auth
            /\ auth' = a
            /\ mkdirs' = [mkdirs EXCEPT ![p] = IF IsRootParent(parentPath) THEN @ ELSE @ + 1]
            /\ IF mkErr # NoErr
               THEN /\ ret' = [ret EXCEPT ![p] = [status |-> 0, err |-> mkErr, parsed |-> FALSE]]
                    /\ open' = [open EXCEPT ![p] = @ - deferred[p]]
                    /\ deferred' = [deferred EXCEPT ![p] = 0]
                    /\ pc' = [pc EXCEPT ![p] = "done"]
                    /\ UNCHANGED <<cm, log, rs, err>>
                    /\ UNCHANGED frameVars
               ELSE /\ cm' = [cm EXCEPT ![p] = @ + 1]
                    /\ EnterReq(p, "nil")
                    /\ UNCHANGED <<ret, open, deferred>>
    /\ UNCHANGED <<authMutex, interceptor, op, calls, src>>

\* --------------------------------------------------------- specifications
ReqStep(p) ==
    \/ ReqEntry(p)
    \/ AuthLock(p)
    \/ AuthSnapshot(p)
    \/ Dispatch(p)
    \/ HandleResponse(p)
    \/ UpgradeLock(p)
    \/ UpgradeWrite(p)

\* One goroutine runs the verbs one after the other
Caller == CHOOSE p \in Procs : TRUE

Next ==
    \/ CallMkcol(Caller)
    \/ CallPut(Caller)
    \/ CallPropfind(Caller)
    \/ CallCopymove(Caller)
    \/ ReqStep(Caller)
    \/ MkcolReturn(Caller)
    \/ PutReturn(Caller)
    \/ PropfindReturn(Caller)
    \/ CopymoveReturn(Caller)
    \/ CreateParentCollection(Caller)

Spec == Init /\ [][Next]_vars

\* Every goroutine calls req (through options) concurrently
NextConc ==
    \E p \in Procs :
        \/ CallOptions(p)
        \/ ReqStep(p)
        \/ OptionsReturn(p)

\* The concurrent calls run on a Client whose observability hook is set
InitConc == Init /\ interceptor

SpecConc == InitConc /\ [][NextConc]_vars


\* ------------------------------------------------------------------ claims
AuthorizeErr == newPathError("Authorize", Root, 401)
LastReq(p) == log[p][Len(log[p])]
\* Challenges that name neither Digest nor Basic, the missing header included
Unrecognised == {HdrMissing, HdrNegotiate}

\* C1: a req call sends at most two requests, under any interleaving with
\* other calls: a second request follows only a 401 with a recognised
\* challenge to an attempt authorized as Anonymous, and a 401 to the second
\* request ends the call with the Authorize error and no third request.
C1_AtMostTwoRequests ==
    \A p \in Procs :
        /\ Len(log[p]) <= 2
        /\ Len(log[p]) = 2 =>
            /\ log[p][1].auth.type = "NoAuth"
            /\ log[p][1].status = 401
            /\ log[p][1].hdr \in Challenges \ Unrecognised
            /\ pc[p] \in {"resp", "ret"}
        /\ (Len(log[p]) = 2 /\ log[p][2].status = 401 /\ pc[p] = "ret") =>
            err[p] = AuthorizeErr

C1_Witness ==
    \E p \in Procs :
        /\ pc[p] = "ret"
        /\ Len(log[p]) = 2
        /\ log[p][2].status = 401
        /\ \E q \in Procs \ {p} : pc[q] = "write"

\* C2: the retry after an upgrade is authorized with the authenticator the
\* call itself derived from the challenge it received, also when another
\* call upgrades the shared authenticator at the same time.
C2_RetryUsesOwnAuth ==
    \A p \in Procs :
        Len(log[p]) = 2 =>
            log[p][2].auth =
                (IF Index(ToLower(log[p][1].hdr), StrDigest) > -1
                 THEN DigestAuth(User, Pass, digestParts(log[p][1].hdr))
                 ELSE BasicAuth(User, Pass))

\* C3: when a call with a body is retried, the body offered on the retry is
\* the whole content of the body, however little of it the first attempt read.
C3_RetryBodyIsWhole ==
    \A p \in Procs :
        (Len(log[p]) = 2 /\ src[p].kind # "nil") =>
            /\ log[p][2].hasBody
            /\ log[p][2].body = src[p].data

\* C4: a non-seekable body is read from the original stream during the first
\* attempt only, and the buffer handed to the retry holds exactly the bytes
\* that attempt read from the stream.
C4_StreamReadOnce ==
    \A p \in Procs :
        (src[p].kind = "stream" /\ Len(log[p]) >= 1) =>
            /\ src[p].pos = log[p][1].read
            /\ Len(log[p]) >= 2 =>
                log[p][2].body = SubSeq(src[p].data, 1, log[p][1].read)

C4_Witness ==
    \E p \in Procs :
        /\ src[p].kind = "stream"
        /\ Len(src[p].data) = 2
        /\ Len(log[p]) = 2
        /\ log[p][1].read = 1
        /\ log[p][2].read = 1

\* C5: copymove answers a 409 by creating the parent and retrying exactly
\* once; a 409 to the retry is terminal, so one copymove call issues at most
\* two COPY/MOVE attempts.
C5_AtMostOneRetry ==
    \A p \in Procs : cm[p] <= 2

\* C6: copymove returns nil exactly when the final response is 201 or 204;
\* a 207 yields the protocol error (method, old path, 207), and every other
\* status except 409 a protocol error with that status.
C6_CopymoveResult ==
    \A p \in Procs :
        (pc[p] = "done" /\ op[p].name = "copymove") =>
            /\ (ret[p].err = NoErr) <=> (rs[p].status \in {201, 204})
            /\ rs[p].status = 207 =>
                ret[p].err = [kind |-> "path", op |-> op[p].method,
                              path |-> op[p].path, status |-> 207]
            /\ rs[p].status \notin {0, 201, 204, 409} =>
                (ret[p].err.kind = "path" /\ ret[p].err.status = rs[p].status)

C6_Witness ==
    \E p \in Procs :
        /\ pc[p] = "done"
        /\ op[p].name = "copymove"
        /\ rs[p].status = 207
        /\ cm[p] = 2

\* C7 as stated: mkcol returns 201 for a final 201 or 405, and every other
\* final status unchanged with a nil error.
C7_MkcolPassesEveryStatus ==
    \A p \in Procs :
        (pc[p] = "done" /\ op[p].name = "mkcol" /\ rs[p].status # 0) =>
            /\ ret[p].err = NoErr
            /\ ret[p].status = (IF rs[p].status \in {201, 405} THEN 201 ELSE rs[p].status)

\* C7 as amended: mkcol returns 201 for a final 201 or 405 and every other
\* final status except 401 unchanged, each with a nil error; a final 401 is
\* returned as status 0 with the Authorize error.
C7_MkcolStatus ==
    \A p \in Procs :
        (pc[p] = "done" /\ op[p].name = "mkcol" /\ rs[p].status # 0) =>
            IF rs[p].status = 401
            THEN ret[p].err = AuthorizeErr /\ ret[p].status = 0
            ELSE /\ ret[p].err = NoErr
                 /\ ret[p].status = (IF rs[p].status \in {201, 405} THEN 201 ELSE rs[p].status)

C7_Witness ==
    \E p \in Procs :
        /\ pc[p] = "done"
        /\ op[p].name = "mkcol"
        /\ rs[p].status = 405
        /\ ret[p].status = 201

\* C8: a 401 without a Digest or Basic challenge to an attempt authorized as
\* Anonymous ends the call with the Authorize error for status 401, no retry
\* is sent and the shared authenticator is still Anonymous.
C8_UnrecognisedChallenge ==
    \A p \in Procs :
        (/\ Len(log[p]) >= 1
         /\ LastReq(p).status = 401
         /\ LastReq(p).auth.type = "NoAuth"
         /\ LastReq(p).hdr \in Unrecognised) =>
            /\ pc[p] \in {"resp", "ret", "done"}
            /\ Len(log[p]) = 1
            /\ pc[p] = "ret" => (err[p] = AuthorizeErr /\ rs[p].status = 401 /\ auth = NoAuth)

C8_Witness ==
    \E p \in Procs :
        /\ pc[p] = "ret"
        /\ Len(log[p]) = 1
        /\ LastReq(p).status = 401
        /\ LastReq(p).auth.type = "NoAuth"
        /\ LastReq(p).hdr = HdrNegotiate

\* C9: a 401 to an attempt authorized as Basic or Digest ends the call with
\* the Authorize error: the step that handles it sends no request, whatever
\* the challenge, and leaves the shared authenticator as it is.
C9_RejectedCredentialIsFinal ==
    [][\A p \in Procs :
          (/\ pc[p] = "resp"
           /\ pc'[p] # "resp"
           /\ rs[p].status = 401
           /\ snap[p].type \in {"BasicAuth", "DigestAuth"}) =>
              /\ pc'[p] = "ret"
              /\ err'[p] = AuthorizeErr
              /\ log'[p] = log[p]
              /\ auth' = auth]_vars

C9_Witness ==
    \E p \in Procs :
        /\ pc[p] = "ret"
        /\ Len(log[p]) = 1
        /\ LastReq(p).status = 401
        /\ LastReq(p).auth.type = "BasicAuth"
        /\ LastReq(p).hdr = HdrDigest1
        /\ err[p] = AuthorizeErr

\* C10: every response body obtained during an operation is closed by the
\* time the operation returns, so no body is open between operations.
C10_NoOpenBodies ==
    \A p \in Procs : pc[p] \in {"idle", "done"} => open[p] = 0

\* C11: no goroutine holds the authenticator lock while it sends a request,
\* runs Authorize or the hooks, or does anything but read or replace c.auth:
\* the holder is always between Lock and Unlock of the snapshot or of the
\* replacement, so a call in the network never keeps another from its snapshot.
C11_NoLockDuringIO ==
    /\ \A p \in Procs :
        pc[p] \in {"idle", "entry", "lock", "send", "resp", "wlock", "ret", "done"} =>
            authMutex # p
    /\ authMutex # 0 => pc[authMutex] \in {"snap", "write"}
    /\ \A p, q \in Procs :
        (pc[p] = "send" /\ pc[q] = "lock") => authMutex \notin {p, q}

C11_Witness ==
    \E p, q \in Procs :
        /\ pc[p] = "send"
        /\ Len(log[p]) = 1
        /\ pc[q] = "snap"
        /\ authMutex = q

\* C12: under any interleaving, a shared authenticator that is Basic or
\* Digest never becomes Anonymous again; c.auth changes only in the write of
\* an attempt whose snapshot was Anonymous and whose response was a 401 with
\* a recognised challenge, and every such write installs a Basic or Digest
\* authenticator with the snapshot's user and password.
C12_NeverAnonymousAgain ==
    [][/\ auth.type # "NoAuth" => auth'.type # "NoAuth"
       /\ auth' # auth => \E p \in Procs : pc[p] = "write" /\ pc'[p] # "write"
       /\ \A p \in Procs :
            (pc[p] = "write" /\ pc'[p] # "write") =>
                /\ snap[p].type = "NoAuth"
                /\ rs[p].status = 401
                /\ rs[p].hdr \in Challenges \ Unrecognised
                /\ auth'.type \in {"BasicAuth", "DigestAuth"}
                /\ auth'.user = snap[p].user
                /\ auth'.pass = snap[p].pass]_vars

C12_Witness ==
    \E p, q \in Procs :
        /\ auth.type = "DigestAuth"
        /\ pc[p] = "send"
        /\ Len(log[p]) = 1
        /\ pc[q] = "write"
        /\ rs[q].hdr = HdrBasic

\* C13: when the dispatch fails with a transport error, req returns that
\* error with a nil response and sends nothing more for the call, and the
\* shared authenticator is what the failed attempt's snapshot read: the
\* Client's value on a first attempt, the whole upgraded value on the retry.
C13_TransportErrorIsFinal ==
    \A p \in Procs :
        /\ \A i \in 1..(Len(log[p]) - 1) : ~log[p][i].failed
        /\ (Len(log[p]) >= 1 /\ LastReq(p).failed) =>
            /\ pc[p] \in {"ret", "done"}
            /\ pc[p] = "ret" => (err[p] = TransportErr /\ rs[p] = NoResp)
            /\ auth = LastReq(p).auth
            /\ Len(log[p]) = 2 =>
                /\ auth.type \in {"BasicAuth", "DigestAuth"}
                /\ auth.user = User
                /\ auth.pass = Pass
                /\ auth.type = "DigestAuth" <=>
                       log[p][1].hdr \in {HdrDigest1, HdrDigest2, HdrBoth}

C13_Witness ==
    \E p \in Procs :
        /\ pc[p] = "ret"
        /\ Len(log[p]) = 2
        /\ log[p][2].failed
        /\ log[p][1].hdr = HdrDigest2
        /\ err[p] = TransportErr

\* C14: a seekable body stands at offset 0 when an attempt is sent, the
\* first attempt and the retry alike, so each attempt offers the whole
\* content; and a call that returns from its entry does so because the seek
\* failed: it returns that error with no response, sends no request and
\* leaves the shared authenticator and the body as they are.
C14_SeekableFromStart ==
    [][\A p \in Procs :
          /\ (src[p].kind = "seek" /\ Len(log'[p]) = Len(log[p]) + 1) =>
                /\ src[p].pos = 0
                /\ log'[p][Len(log'[p])].body = src[p].data
          /\ (pc[p] = "entry" /\ pc'[p] = "ret") =>
                /\ src[p].kind = "seek"
                /\ err'[p] = SeekErr
                /\ rs'[p] = NoResp
                /\ log'[p] = log[p]
                /\ auth' = auth
                /\ src'[p] = src[p]]_vars

C14_Witness ==
    \E p \in Procs :
        /\ op[p].name = "put"
        /\ src[p].kind = "seek"
        /\ Len(src[p].data) = 2
        /\ Len(log[p]) = 2
        /\ log[p][1].read = 1
        /\ log[p][2].body = src[p].data

\* C15: a req call with a nil body creates no replay buffer, and every
\* attempt of it, the retry included, is built with a nil body and reads
\* no byte.
C15_NilBodyStaysNil ==
    \A p \in Procs :
        (op[p].name \in {"mkcol", "copymove", "options"}
            \/ (op[p].name = "put" /\ src[p].kind = "nil")) =>
            /\ pc[p] \notin {"idle", "entry"} => retryBuf[p] = "nil"
            /\ body[p] = "nil"
            /\ buff[p] = <<>>
            /\ inBuf[p] = <<>>
            /\ \A i \in 1..Len(log[p]) : ~log[p][i].hasBody /\ log[p][i].read = 0

C15_Witness ==
    \E p \in Procs :
        /\ op[p].name = "mkcol"
        /\ Len(log[p]) = 2
        /\ ~log[p][2].hasBody
        /\ pc[p] = "ret"

\* C16 as stated: propfind hands the body to the parser exactly when the
\* final status is 207, returns the protocol error (PROPFIND, path, s) for
\* every other final status s, and sends Depth 0 for selfOnly and Depth 1
\* otherwise on every attempt.
C16_PropfindEveryStatus ==
    \A p \in Procs :
        (pc[p] = "done" /\ op[p].name = "propfind" /\ rs[p].status # 0) =>
            /\ ret[p].parsed <=> rs[p].status = 207
            /\ rs[p].status # 207 =>
                ret[p].err = [kind |-> "path", op |-> "PROPFIND",
                              path |-> op[p].path, status |-> rs[p].status]
            /\ \A i \in 1..Len(log[p]) :
                log[p][i].depth = (IF op[p].self THEN "0" ELSE "1")

\* C16 as amended: propfind hands the body to the parser exactly when the
\* final status is 207; for every other final status s except 401 it returns
\* the protocol error (PROPFIND, path, s), for a final 401 the Authorize error
\* of req, in both cases without the parser; every attempt carries Depth 0
\* for selfOnly and Depth 1 otherwise.
C16_Propfind ==
    \A p \in Procs :
        op[p].name = "propfind" =>
            /\ \A i \in 1..Len(log[p]) :
                log[p][i].depth = (IF op[p].self THEN "0" ELSE "1")
            /\ pc[p] = "done" =>
                /\ ret[p].parsed <=> rs[p].status = 207
                /\ rs[p].status \notin {0, 207, 401} =>
                    ret[p].err = [kind |-> "path", op |-> "PROPFIND",
                                  path |-> op[p].path, status |-> rs[p].status]
                /\ rs[p].status = 401 => ret[p].err = AuthorizeErr

C16_Witness ==
    \E p \in Procs :
        /\ pc[p] = "done"
        /\ op[p].name = "propfind"
        /\ op[p].self
        /\ Len(log[p]) = 2
        /\ rs[p].status = 207
        /\ ret[p].parsed

\* C17: every attempt of req, the retry as well as the first, goes through
\* these steps in this order on its own request: the default headers, one
\* snapshot of the shared authenticator under the lock, Authorize, the
\* caller's hook where the verb passes one, the global hook where the Client
\* has one, and then the send; so each hook runs once per attempt.
C17_StepOrder ==
    \A p \in Procs :
        \A i \in 1..Len(log[p]) :
            log[p][i].steps =
                IF op[p].name \in {"propfind", "copymove", "options"}
                THEN IF interceptor
                     THEN <<"headers", "snapshot", "authorize", "mutate", "observe", "send">>
                     ELSE <<"headers", "snapshot", "authorize", "mutate", "send">>
                ELSE IF interceptor
                     THEN <<"headers", "snapshot", "authorize", "observe", "send">>
                     ELSE <<"headers", "snapshot", "authorize", "send">>

C17_Witness ==
    \E p \in Procs :
        /\ op[p].name = "propfind"
        /\ interceptor
        /\ Len(log[p]) = 2
        /\ log[p][2].steps = <<"headers", "snapshot", "authorize", "mutate", "observe", "send">>

\* C18: the scheme of the upgrade is found in the WWW-Authenticate value
\* without regard to case, Digest first: a value naming digest installs a
\* Digest authenticator even when it names basic too, a value naming only
\* basic installs a Basic one, each with the user and password of the
\* Anonymous snapshot.
C18_SchemeChoice ==
    \A p \in Procs :
        (/\ Len(log[p]) >= 1
         /\ log[p][1].auth.type = "NoAuth"
         /\ log[p][1].status = 401
         /\ (Len(log[p]) = 2 \/ pc[p] \in {"entry", "lock", "snap", "send"})) =>
            /\ log[p][1].hdr \in {HdrDigest1, HdrDigest2, HdrBoth} => auth.type = "DigestAuth"
            /\ log[p][1].hdr = HdrBasic => auth.type = "BasicAuth"
            /\ log[p][1].hdr \in {HdrDigest1, HdrDigest2, HdrBoth, HdrBasic}
            /\ auth.user = log[p][1].auth.user
            /\ auth.pass = log[p][1].auth.pass
            /\ Len(log[p]) = 2 => log[p][2].auth = auth

C18_Witness ==
    \E p \in Procs :
        /\ Len(log[p]) = 2
        /\ log[p][1].hdr = HdrBoth
        /\ log[p][2].auth.type = "DigestAuth"

\* C19: createParentCollection succeeds without a request when the parent
\* of the item is "." or "/", and calls MkdirAll once otherwise; copymove
\* returns a failure of it without another COPY/MOVE, and sends the retry
\* only when it has succeeded.
C19_ParentCreation ==
    [][\A p \in Procs :
          (pc[p] = "parent" /\ pc'[p] # "parent") =>
              LET trivial == op[p].newpath \in {<<"y">>, <<"/", "y">>}
              IN  /\ mkdirs'[p] = mkdirs[p] + (IF trivial THEN 0 ELSE 1)
                  /\ trivial => (pc'[p] = "entry" /\ auth' = auth)
                  /\ pc'[p] \in {"entry", "done"}
                  /\ pc'[p] = "done" =>
                        /\ ret'[p].err = MkdirErr
                        /\ cm'[p] = cm[p]
                        /\ log'[p] = log[p]
                  /\ pc'[p] = "entry" =>
                        /\ cm'[p] = cm[p] + 1
                        /\ ret'[p] = NoRet]_vars

C19_Witness ==
    \E p \in Procs :
        /\ pc[p] = "done"
        /\ op[p].name = "copymove"
        /\ op[p].newpath = <<"a", "/", "y">>
        /\ ret[p].err = MkdirErr
        /\ cm[p] = 2
        /\ mkdirs[p] = 2

\* C20: the upgraded authenticator is in place before the retry is sent and
\* req never takes it back, whether the retry is rejected or fails; every
\* later attempt reads it, so a later call answered with 401 sends that one
\* request and fails with the Authorize error, with no new negotiation.
C20_UpgradeIsKept ==
    [][/\ auth.type # "NoAuth" => auth' = auth
       /\ \A p \in Procs :
            /\ Len(log'[p]) = 2 =>
                /\ auth'.type \in {"BasicAuth", "DigestAuth"}
                /\ log'[p][2].auth = auth'
            /\ pc'[p] \in {"send", "resp"} => snap'[p] = auth'
            /\ (/\ Len(log'[p]) >= 1
                /\ log'[p][1].auth.type \in {"BasicAuth", "DigestAuth"}
                /\ log'[p][1].status = 401) =>
                    /\ Len(log'[p]) = 1
                    /\ pc'[p] \in {"resp", "ret", "done"}
                    /\ pc'[p] # "resp" => err'[p] = AuthorizeErr]_vars

C20_Witness ==
    \E p \in Procs :
        /\ calls[p] = 2
        /\ op[p].name = "put"
        /\ auth.type = "DigestAuth"
        /\ Len(log[p]) = 1
        /\ log[p][1].auth = auth
        /\ log[p][1].status = 401
        /\ log[p][1].hdr = HdrBasic
        /\ pc[p] = "ret"
        /\ err[p] = AuthorizeErr

====
